---- MODULE Spec2Model ----
(***************************************************************************)
(* Model of nexus-server: the Server readiness state machine, the Request  *)
(* classifier, the Response guard, RequestError and FileStore.             *)
(*                                                                         *)
(* Strings that the code inspects character by character (resource paths,  *)
(* modes) are sequences of one-character strings.  The node http.Server,   *)
(* the file system and the streams are the environment: they are modelled  *)
(* by what the code observes of them.                                      *)
(***************************************************************************)
EXTENDS Integers, Sequences, FiniteSets, TLC

\* ------------------------------------------------------------------ bounds
MaxCalls == 7       \* listen()/close()/reset() calls made on one server
MaxErrors == 1      \* transport 'error' events delivered to one server
MaxFile == 2        \* bytes in one file, and in the data of one write
MaxDepthOpt == 2    \* largest maxDepth option a FileStore is built with
MaxConc == 2        \* requests handled at the same time
MaxBody == 1        \* bytes in the body of one upload
MaxReqs == 3        \* requests that arrive at one server
MaxWrites == 2      \* calls of writeError made on one Response directly

\* --------------------------------------------------------- Server constants
INIT == 0
READY == 1
LISTENING == 2
CLOSING == 3
CLOSED == 4

\* JavaScript null
null == <<"null">>

VARIABLES
  readyState,   \* Server._readyState
  server,       \* Server._server: null or the http.Server object
  sock,         \* the http.Server socket: idle, binding, bound, closing
  calls,        \* the promises returned by listen()/close()/reset(), in call order
  listened,     \* history: listen() was called since construction / the last reset()
  errors,       \* number of 'error' events the Server has emitted
  maxDepth,     \* FileStore._options.maxDepth
  files,        \* the file system: physical path -> content of the file
  dirs,         \* the file system: the directories that exist
  sc,           \* a call made on the FileStore directly, and its progress
  reqs,         \* the requests being handled: request, response and progress
  fresh,        \* history: the last write-mode upload that completed
  arrived,      \* history: number of requests that have arrived
  want          \* history: per file, what the completed uploads are to leave in it

serverVars == <<readyState, server, sock, calls, listened, errors>>

storeVars == <<maxDepth, files, dirs>>

reqVars == <<reqs, fresh, arrived, want>>

vars ==
  <<readyState, server, sock, calls, listened, errors, maxDepth, files, dirs, sc,
    reqs, fresh, arrived, want>>

\* ------------------------------------------------------------------ strings

\* String.prototype.split(sep) on a character sequence
RECURSIVE Split(_, _)
Split(s, sep) ==
  IF s = <<>> THEN << <<>> >>
  ELSE LET rest == Split(Tail(s), sep)
       IN IF Head(s) = sep
          THEN << <<>> >> \o rest
          ELSE << <<Head(s)>> \o Head(rest) >> \o Tail(rest)

\* the text of a character sequence, as a template literal prints it
RECURSIVE Str(_)
Str(s) == IF s = <<>> THEN "" ELSE Head(s) \o Str(Tail(s))

\* ------------------------------------------------------------- RequestError
BAD_REQUEST == 400
NOT_FOUND == 404
INTERNAL_SERVER_ERROR == 500
RANGE_NOT_SATISFIABLE == 416

\* no error object (JavaScript null where an error is expected)
NoError == [type |-> "null"]

\* Buffer.byteLength(message): the messages are ASCII, one byte a character
ByteLength(message) == Len(message)

\* Object.assign({}, a, b)
ObjectAssign(a, b) == b @@ a

\* a RequestError whose three headers give way to the caller's
RequestError_callerWins(message, statusCode, headers, orig) ==
  [type |-> "RequestError",
   message |-> message,
   statusCode |-> statusCode,
   headers |-> ObjectAssign(("Content-Type" :> "text/plain")
                              @@ ("Content-Length" :> ByteLength(message))
                              @@ ("Connection" :> "close"),
                            headers),
   original |-> orig]

\* new RequestError(message, statusCode, headers, orig)
RequestError(message, statusCode, headers, orig) ==
  [type |-> "RequestError",
   message |-> message,
   statusCode |-> statusCode,
   headers |-> ObjectAssign(headers,
                 ("Content-Type" :> "text/plain")
                   @@ ("Content-Length" :> ByteLength(message))
                   @@ ("Connection" :> "close")),
   original |-> orig]

\* RequestError.wrap(error, statusCode, message, headers)
RequestErrorWrap(error, statusCode, message, headers) ==
  RequestError(IF message = "null" THEN error.message ELSE message,
               statusCode, headers, error)

\* a plain Error raised by the file system
FsError(code) == [type |-> "Error", message |-> code]

\* a TypeError thrown by the runtime
TypeError(message) == [type |-> "TypeError", message |-> message]

\* a value that is not an Error, such as a string a promise is rejected with
NotAnError == [type |-> "string", message |-> "failed"]

\* error instanceof Error
IsError(error) == error.type \in {"Error", "TypeError", "RequestError"}

\* RequestError.wrap throws a TypeError for a value that is not an Error
WrapThrows(error) == error = NoError \/ ~IsError(error)

EmptyHeaders == [h \in {} |-> ""]

\* ---------------------------------------------------------------- FileStore
MODES_READ == { <<"r">> }
MODES_WRITE == { <<"w">>, <<"a">> }
MODE_READ == <<"r">>
MODE_APPEND == <<"a">>
MODE_WRITE == <<"w">>

\* an option that was not given (undefined, for which isNaN is true)
Undef == -1

\* FileStore._root: "/r", as the list of its segments
Root == << <<"r">> >>

\* path.resolve: '' and '.' segments are dropped, '..' removes the segment
\* before it (and stays at '/' when there is none)
RECURSIVE Normalize(_, _)
Normalize(acc, segs) ==
  IF segs = <<>> THEN acc
  ELSE LET h == Head(segs)
       IN IF h = <<>> \/ h = <<".">>
          THEN Normalize(acc, Tail(segs))
          ELSE IF h = <<".", ".">>
          THEN Normalize(IF acc = <<>> THEN acc ELSE SubSeq(acc, 1, Len(acc) - 1),
                         Tail(segs))
          ELSE Normalize(Append(acc, h), Tail(segs))

\* path.resolve(root, rel) for a relative rel
PathResolve(root, rel) == Normalize(<<>>, root \o Split(rel, "/"))

\* index of the last '.' of a name, 0 when it has none
LastDot(b) ==
  IF \E i \in 1..Len(b) : b[i] = "."
  THEN CHOOSE i \in 1..Len(b) : b[i] = "." /\ \A j \in (i + 1)..Len(b) : b[j] # "."
  ELSE 0

\* path.extname of a path given as its segments
ExtName(p) ==
  IF p = <<>> THEN <<>>
  ELSE LET b == p[Len(p)]
           d == LastDot(b)
       IN IF d = 0 \/ d = 1 \/ b = <<".", ".">> THEN <<>> ELSE SubSeq(b, d, Len(b))

\* resourcePath += '.'
AddDot(p) ==
  IF p = <<>> THEN << <<".">> >>
  ELSE [p EXCEPT ![Len(p)] = @ \o <<".">>]

\* FileStore._getResourcePath(resource)
GetResourcePath(resource) ==
  LET resourcePath == PathResolve(Root, <<".">> \o resource)
  IN IF ExtName(resourcePath) = <<>> THEN AddDot(resourcePath) ELSE resourcePath

\* resource.split('/').length - 1
Depth(resource) == Len(Split(resource, "/")) - 1

\* the depth check with >= for >
DepthExceeded_offByOne(resource) ==
  maxDepth > 0 /\ Depth(resource) >= maxDepth

\* the depth check of createReadStream and createWriteStream
DepthExceeded(resource) ==
  maxDepth > 0 /\ Depth(resource) > maxDepth

DepthError ==
  RequestError("Maximum Resource Depth (" \o ToString(maxDepth) \o ") Exceeded",
               BAD_REQUEST, EmptyHeaders, NoError)

\* createReadStream, up to the call of fs.stat: the rejection, or NoError
ReadStreamCheck(resource, mode) ==
  IF DepthExceeded(resource) THEN DepthError
  ELSE IF mode \notin MODES_READ
  THEN RequestError("Unsupported Read Mode (" \o Str(mode) \o ")",
                    BAD_REQUEST, EmptyHeaders, NoError)
  ELSE NoError

\* createWriteStream, up to the call of fs.ensureFile: the rejection, or NoError
WriteStreamCheck(resource, mode) ==
  IF DepthExceeded(resource) THEN DepthError
  ELSE IF mode \notin MODES_WRITE
  THEN RequestError("Unsupported Write Mode (" \o Str(mode) \o ")",
                    BAD_REQUEST, EmptyHeaders, NoError)
  ELSE NoError

\* the callback of fs.stat in createReadStream: the rejection, or NoError
StatCheck(resourcePath, start, end) ==
  IF resourcePath \notin DOMAIN files THEN FsError("ENOENT")
  ELSE LET size == Len(files[resourcePath])
       IN IF start > size \/ (end # Undef /\ end > size)
          THEN RequestError("Range Not Satisfiable", RANGE_NOT_SATISFIABLE,
                            EmptyHeaders, NoError)
          ELSE NoError

\* fs.createReadStream(path, {start, end}) refuses start > end with a RangeError
ReadStreamThrows(start, end) == end # Undef /\ start > end

Min(a, b) == IF a < b THEN a ELSE b

\* the bytes an fs.ReadStream delivers: start and end are both inclusive
StreamBytes(content, start, end) ==
  SubSeq(content, start + 1,
         IF end = Undef THEN Len(content) ELSE Min(end + 1, Len(content)))

\* the proper ancestors of a path
Parents(p) == { SubSeq(p, 1, k) : k \in 0..(Len(p) - 1) }

\* fs.ensureFile(path): whether it fails
EnsureFileFails(resourcePath) ==
  /\ resourcePath \notin DOMAIN files
  /\ \/ resourcePath \in dirs
     \/ \E d \in Parents(resourcePath) : d \in DOMAIN files

\* fs.ensureFile(path): the error it fails with, of the write of a directory
\* or of the stat below a file
EnsureFileError(resourcePath) ==
  IF resourcePath \in dirs THEN FsError("EISDIR") ELSE FsError("ENOTDIR")

\* fs.ensureFile(path): the files and directories afterwards
EnsureFiles(resourcePath) ==
  IF resourcePath \in DOMAIN files THEN files ELSE (resourcePath :> <<>>) @@ files

EnsureDirs(resourcePath) ==
  IF resourcePath \in DOMAIN files THEN dirs ELSE dirs \cup Parents(resourcePath)

\* opening a file for writing without ever truncating it
OpenForWrite_keep(content, flags) == content

\* opening an fs.WriteStream: 'w' truncates the file, 'a' does not
OpenForWrite(content, flags) == IF flags = MODE_WRITE THEN <<>> ELSE content

\* a write that goes to position pos also when the file is open with 'a'
WriteBytes_positional(content, flags, pos, data) ==
  SubSeq(content, 1, pos) \o data
    \o SubSeq(content, pos + Len(data) + 1, Len(content))

\* a write of an fs.WriteStream at position pos; with 'a' the file is open
\* with O_APPEND and the data goes to its end whatever pos is
WriteBytes(content, flags, pos, data) ==
  IF flags = MODE_APPEND THEN content \o data
  ELSE SubSeq(content, 1, pos) \o data
         \o SubSeq(content, pos + Len(data) + 1, Len(content))

\* ------------------------------------------------------------------ Request
ACTION_INVALID == -1
ACTION_DOWNLOAD == 0
ACTION_UPLOAD == 1

\* JavaScript undefined: the value of a header that is absent
undefined == <<"undefined">>

\* a value that is falsy in JavaScript
Falsy(v) == v = undefined \/ v = null \/ v = <<>>

\* a || b
Or(a, b) == IF Falsy(a) THEN b ELSE a

\* Request.isDownload()
isDownload(r) == r.url = "/download" /\ r.method = "GET"

\* Request.isUpload()
isUpload(r) == r.url = "/upload" /\ r.method \in {"PUT", "POST"}

\* Request.getAction()
getAction(r) ==
  IF isDownload(r) THEN ACTION_DOWNLOAD
  ELSE IF isUpload(r) THEN ACTION_UPLOAD
  ELSE ACTION_INVALID

\* hasValidResource that only tests that the header is there
hasValidResource_present(r) == ~Falsy(r.xresource)

\* Request.hasValidResource()
hasValidResource(r) == ~Falsy(r.xresource) /\ r.xresource[1] = "/"

\* Request.resource
Resource(r) == Or(r.xresource, null)

\* Request.mode
Mode(r) == Or(r.xmode, null)

\* ----------------------------------------------------------------- Response
OPEN == 1
FINISHED == 2

Slots == 1..MaxConc

NoExpect ==
  [res |-> <<>>, content |-> <<>>, alias |-> FALSE, overlap |-> FALSE, set |-> FALSE]

NoFresh == NoExpect

\* a slot without a request
IdleRequest ==
  [pc |-> "idle",
   \* the http.IncomingMessage
   method |-> "", url |-> "", xresource |-> undefined, xmode |-> undefined,
   body |-> <<>>,
   \* the Response and its http.ServerResponse
   state |-> OPEN, headersSent |-> FALSE, statusCode |-> 0, statusMessage |-> "",
   headers |-> EmptyHeaders, text |-> "", bytes |-> <<>>, ended |-> FALSE,
   continued |-> FALSE, threw |-> "",
   \* history: the calls of writeError on the Response, and the last error given
   writeErrors |-> 0, error |-> NoError,
   \* what the Server did for the request
   events |-> <<>>, storeCalls |-> <<>>, streams |-> 0, piped |-> <<>>,
   wrapped |-> NoError,
   \* Server._store: the FileStore, or a store of the user
   store |-> "FileStore",
   \* history: the emits and the store calls in their order, what the promise
   \* of the store settled with, and the rejection nothing handled
   log |-> <<>>, resolved |-> [kind |-> "pending"], storeError |-> NoError,
   uncaught |-> "",
   \* history: another request on the same file was in progress meanwhile
   overlap |-> FALSE,
   \* history: the upload this download is expected to return
   expect |-> NoExpect]

\* writeError that does not look at the state of the response
writeError_unguarded(r, error) ==
  LET c == [r EXCEPT !.writeErrors = @ + 1, !.error = error, !.threw = ""]
  IN IF error.type # "RequestError"
     THEN [c EXCEPT !.threw = "error must be an instance of Request.RequestError"]
     ELSE [c EXCEPT !.statusCode = error.statusCode,
                    !.statusMessage = error.message,
                    !.headers = error.headers,
                    !.headersSent = TRUE,
                    !.text = error.message,
                    !.ended = TRUE]

\* Response.writeError(error)
writeError(r, error) ==
  LET c == [r EXCEPT !.writeErrors = @ + 1, !.error = error, !.threw = ""]
  IN IF error.type # "RequestError"
     THEN [c EXCEPT !.threw = "error must be an instance of Request.RequestError"]
     ELSE IF r.state # OPEN
     THEN [c EXCEPT !.threw = "response is not open"]
     ELSE IF r.headersSent
     THEN [c EXCEPT !.threw = "headers already sent"]
     ELSE [c EXCEPT !.statusCode = error.statusCode,
                    !.statusMessage = error.message,
                    !.headers = error.headers,
                    !.headersSent = TRUE,
                    !.text = error.message,
                    !.ended = TRUE]

\* after writeError: the response is ending, unless writeError threw: then
\* the promise of the handler is rejected and the response stays as it is
AfterWriteError(r) ==
  IF r.threw # "" THEN [r EXCEPT !.pc = "hung", !.uncaught = r.threw]
  ELSE [r EXCEPT !.pc = "ending"]

\* --------------------------------------------------- Server (request handling)

\* a catch of _handleRead that wraps the typed errors as well
handleReadCatch_rewrap(r, err) ==
  IF WrapThrows(err)
  THEN [r EXCEPT !.pc = "hung", !.uncaught = "error must be an instance of Error"]
  ELSE LET e == RequestErrorWrap(err, 404, "Resource Not Accessible", EmptyHeaders)
       IN AfterWriteError(writeError([r EXCEPT !.wrapped = e.original], e))

\* the catch of _handleRead
handleReadCatch(r, err) ==
  IF err.type # "RequestError" /\ WrapThrows(err)
  THEN [r EXCEPT !.pc = "hung", !.uncaught = "error must be an instance of Error"]
  ELSE LET e == IF err.type # "RequestError"
                THEN RequestErrorWrap(err, 404, "Resource Not Accessible", EmptyHeaders)
                ELSE err
       IN AfterWriteError(writeError([r EXCEPT !.wrapped = e.original], e))

\* a catch of _handleWrite that signals the client to go on before it answers
handleWriteCatch_continue(r, err) ==
  IF err.type # "RequestError" /\ WrapThrows(err)
  THEN [r EXCEPT !.pc = "hung", !.uncaught = "error must be an instance of Error"]
  ELSE LET e == IF err.type # "RequestError"
                THEN RequestErrorWrap(err, 404, "Resouce Not Accessible", EmptyHeaders)
                ELSE err
       IN AfterWriteError(writeError([r EXCEPT !.wrapped = e.original,
                                               !.continued = TRUE], e))

\* the catch of _handleWrite
handleWriteCatch(r, err) ==
  IF err.type # "RequestError" /\ WrapThrows(err)
  THEN [r EXCEPT !.pc = "hung", !.uncaught = "error must be an instance of Error"]
  ELSE LET e == IF err.type # "RequestError"
                THEN RequestErrorWrap(err, 404, "Resouce Not Accessible", EmptyHeaders)
                ELSE err
       IN AfterWriteError(writeError([r EXCEPT !.wrapped = e.original], e))

\* the promise of the store is rejected with err
Rejected(r, err) ==
  [r EXCEPT !.resolved = [kind |-> "rejected"], !.storeError = err]

\* _handleRead that emits nothing when the store refuses the call at once
handleRead_silent(r) ==
  LET mode == Or(Mode(r), <<"r">>)
      r1 == [r EXCEPT !.storeCalls = Append(@, <<"createReadStream", Resource(r), mode>>),
                      !.log = Append(@, "createReadStream")]
      r2 == [r1 EXCEPT !.events = Append(@, <<"download", Resource(r), mode>>),
                       !.log = Append(@, "download")]
      err == ReadStreamCheck(Resource(r), mode)
  IN IF r.store # "FileStore" THEN [r2 EXCEPT !.pc = "pending"]
     ELSE IF err # NoError THEN handleReadCatch(Rejected(r1, err), err)
     ELSE [r2 EXCEPT !.pc = "stat"]

\* Server._handleRead, up to the call of fs.stat of the FileStore, or up to
\* the promise that the store of the user returns
handleRead(r) ==
  LET mode == Or(Mode(r), <<"r">>)
      r1 == [r EXCEPT !.events = Append(@, <<"download", Resource(r), mode>>),
                      !.log = Append(@, "download")]
      r2 == [r1 EXCEPT !.storeCalls = Append(@, <<"createReadStream", Resource(r), mode>>),
                       !.log = Append(@, "createReadStream")]
      err == ReadStreamCheck(Resource(r), mode)
  IN IF r.store # "FileStore" THEN [r2 EXCEPT !.pc = "pending"]
     ELSE IF err # NoError THEN handleReadCatch(Rejected(r2, err), err)
     ELSE [r2 EXCEPT !.pc = "stat"]

\* _handleWrite that gives the store the mode of the request as it is
handleWrite_rawMode(r) ==
  LET mode == Or(Mode(r), <<"w">>)
      r1 == [r EXCEPT !.events = Append(@, <<"upload", Resource(r), mode>>),
                      !.log = Append(@, "upload")]
      r2 == [r1 EXCEPT !.storeCalls = Append(@, <<"createWriteStream", Resource(r), Mode(r)>>),
                       !.log = Append(@, "createWriteStream")]
      err == WriteStreamCheck(Resource(r), Mode(r))
  IN IF r.store # "FileStore" THEN [r2 EXCEPT !.pc = "pending"]
     ELSE IF err # NoError THEN handleWriteCatch(Rejected(r2, err), err)
     ELSE [r2 EXCEPT !.pc = "ensure"]

\* Server._handleWrite, up to the call of fs.ensureFile of the FileStore, or
\* up to the promise that the store of the user returns
handleWrite(r) ==
  LET mode == Or(Mode(r), <<"w">>)
      r1 == [r EXCEPT !.events = Append(@, <<"upload", Resource(r), mode>>),
                      !.log = Append(@, "upload")]
      r2 == [r1 EXCEPT !.storeCalls = Append(@, <<"createWriteStream", Resource(r), mode>>),
                       !.log = Append(@, "createWriteStream")]
      err == WriteStreamCheck(Resource(r), mode)
  IN IF r.store # "FileStore" THEN [r2 EXCEPT !.pc = "pending"]
     ELSE IF err # NoError THEN handleWriteCatch(Rejected(r2, err), err)
     ELSE [r2 EXCEPT !.pc = "ensure"]

\* _handleRequest that tests the resource before the action
handleRequest_resourceFirst(r) ==
  LET action == getAction(r)
  IN IF ~hasValidResource(r)
     THEN AfterWriteError(writeError(r, RequestError("Invalid Resource", 400, EmptyHeaders, NoError)))
     ELSE IF action = ACTION_INVALID
     THEN AfterWriteError(writeError(r, RequestError("Not Found", 404, EmptyHeaders, NoError)))
     ELSE IF action = ACTION_DOWNLOAD THEN handleRead(r)
     ELSE IF action = ACTION_UPLOAD THEN handleWrite(r)
     ELSE r

\* Server._handleRequest
handleRequest(r) ==
  LET action == getAction(r)
  IN IF action = ACTION_INVALID
     THEN AfterWriteError(writeError(r, RequestError("Not Found", 404, EmptyHeaders, NoError)))
     ELSE IF ~hasValidResource(r)
     THEN AfterWriteError(writeError(r, RequestError("Invalid Resource", 400, EmptyHeaders, NoError)))
     ELSE IF action = ACTION_DOWNLOAD THEN handleRead(r)
     ELSE IF action = ACTION_UPLOAD THEN handleWrite(r)
     ELSE r

\* no call on the store is in progress; files0 and dirs0 are the file system
\* as the next call finds it
IdleCall ==
  [pc |-> "idle", fn |-> "", resource |-> <<>>, mode |-> <<>>,
   start |-> 0, end |-> Undef, data |-> <<>>,
   outcome |-> "", error |-> NoError, size |-> 0, out |-> <<>>, streams |-> 0,
   files0 |-> files, dirs0 |-> dirs]

\* ------------------------------------------------------------ Server (API)

\* A promise returned by an API call; "at" is the readiness state the call saw.
Promise(op, state) ==
  [op |-> op, at |-> readyState, listened |-> listened, state |-> state]

\* every pending promise of operation op settles as resolved
Settle(op) ==
  [i \in DOMAIN calls |->
     IF calls[i].op = op /\ calls[i].state = "pending"
     THEN [calls[i] EXCEPT !.state = "resolved"]
     ELSE calls[i]]

\* new Server(options): constructor, _createServer, _attachListeners
Construct(store) ==
  /\ server = null
  /\ readyState = INIT
  /\ IF store = null
     THEN \* TypeError('options.store is required'): no server object exists
          UNCHANGED <<readyState, server>>
     ELSE /\ server' = <<"http.Server">>
          /\ readyState' = READY
  /\ UNCHANGED <<sock, calls, listened, errors, storeVars, sc, reqVars>>

\* listen() with the state guard also letting LISTENING through
listen_anyOpen ==
  /\ server # null
  /\ Len(calls) < MaxCalls
  /\ listened' = TRUE
  /\ IF readyState # READY /\ readyState # LISTENING
     THEN /\ calls' = Append(calls, Promise("listen", "rejected"))
          /\ UNCHANGED sock
     ELSE IF sock = "idle"
     THEN /\ sock' = "binding"
          /\ calls' = Append(calls, Promise("listen", "pending"))
     ELSE /\ \E accepted \in BOOLEAN :
               calls' = Append(calls,
                          Promise("listen", IF accepted THEN "pending" ELSE "rejected"))
          /\ UNCHANGED sock
  /\ UNCHANGED <<readyState, server, errors, storeVars, sc, reqVars>>

\* Server.listen()
listen ==
  /\ server # null
  /\ Len(calls) < MaxCalls
  /\ listened' = TRUE
  /\ IF readyState # READY
     THEN /\ calls' = Append(calls, Promise("listen", "rejected"))
          /\ UNCHANGED sock
     ELSE IF sock = "idle"
     THEN \* this._server.listen(port, hostname, cb)
          /\ sock' = "binding"
          /\ calls' = Append(calls, Promise("listen", "pending"))
     ELSE \* the socket is already binding: http.Server either throws
          \* (the executor turns it into a rejection) or takes the callback
          /\ \E accepted \in BOOLEAN :
               calls' = Append(calls,
                          Promise("listen", IF accepted THEN "pending" ELSE "rejected"))
          /\ UNCHANGED sock
  /\ UNCHANGED <<readyState, server, errors, storeVars, sc, reqVars>>

\* a close() whose promise resolves without waiting for the 'close' event
close_eager ==
  /\ server # null
  /\ Len(calls) < MaxCalls
  /\ IF readyState # LISTENING
     THEN /\ calls' = Append(calls, Promise("close", "rejected"))
          /\ UNCHANGED sock
     ELSE /\ sock' = "closing"
          /\ calls' = Append(calls, Promise("close", "resolved"))
  /\ UNCHANGED <<readyState, server, listened, errors, storeVars, sc, reqVars>>

\* Server.close()
close ==
  /\ server # null
  /\ Len(calls) < MaxCalls
  /\ IF readyState # LISTENING
     THEN /\ calls' = Append(calls, Promise("close", "rejected"))
          /\ UNCHANGED sock
     ELSE \* this._server.close(cb): cb runs on the 'close' event
          /\ sock' = "closing"
          /\ calls' = Append(calls, Promise("close", "pending"))
  /\ UNCHANGED <<readyState, server, listened, errors, storeVars, sc, reqVars>>

\* reset() that goes back to the initial state instead of READY
reset_toInit ==
  /\ server # null
  /\ Len(calls) < MaxCalls
  /\ IF readyState # CLOSED
     THEN /\ calls' = Append(calls, Promise("reset", "rejected"))
          /\ UNCHANGED <<readyState, listened>>
     ELSE /\ readyState' = INIT
          /\ listened' = FALSE
          /\ calls' = Append(calls, Promise("reset", "resolved"))
  /\ UNCHANGED <<server, sock, errors, storeVars, sc, reqVars>>

\* Server.reset()
reset ==
  /\ server # null
  /\ Len(calls) < MaxCalls
  /\ IF readyState # CLOSED
     THEN /\ calls' = Append(calls, Promise("reset", "rejected"))
          /\ UNCHANGED <<readyState, listened>>
     ELSE /\ readyState' = READY
          /\ listened' = FALSE
          /\ calls' = Append(calls, Promise("reset", "resolved"))
  /\ UNCHANGED <<server, sock, errors, storeVars, sc, reqVars>>

\* ------------------------------------------------- Server (transport events)

\* 'listening': onListening, then the callbacks given to _server.listen
onListening ==
  /\ sock = "binding"
  /\ sock' = "bound"
  /\ readyState' = LISTENING
  /\ calls' = Settle("listen")
  /\ UNCHANGED <<server, listened, errors, storeVars, sc, reqVars>>

\* onClose that records the CLOSING state
onClose_closing ==
  /\ sock = "closing"
  /\ sock' = "idle"
  /\ readyState' = CLOSING
  /\ calls' = Settle("close")
  /\ UNCHANGED <<server, listened, errors, storeVars, sc, reqVars>>

\* 'close': onClose, then the callbacks given to _server.close
onClose ==
  /\ sock = "closing"
  /\ sock' = "idle"
  /\ readyState' = CLOSED
  /\ calls' = Settle("close")
  /\ UNCHANGED <<server, listened, errors, storeVars, sc, reqVars>>

\* 'error': onError re-emits it; a failed bind leaves the socket unbound
onError ==
  /\ sock \in {"binding", "bound"}
  /\ errors < MaxErrors
  /\ errors' = errors + 1
  /\ sock' = IF sock = "binding" THEN "idle" ELSE sock
  /\ UNCHANGED <<readyState, server, calls, listened, storeVars, sc, reqVars>>

InitServer ==
  /\ readyState = INIT
  /\ server = null
  /\ sock = "idle"
  /\ calls = <<>>
  /\ listened = FALSE
  /\ errors = 0
  /\ maxDepth = 0
  /\ files = <<>>
  /\ dirs = Parents(Root) \cup {Root}
  /\ sc = IdleCall
  /\ reqs = [i \in Slots |-> IdleRequest]
  /\ fresh = NoFresh
  /\ arrived = 0
  /\ want = <<>>

NextServer ==
  \/ \E store \in {null, <<"FileStore">>} : Construct(store)
  \/ listen
  \/ close
  \/ reset
  \/ onListening
  \/ onClose
  \/ onError

SpecServer == InitServer /\ [][NextServer]_vars

\* the transport answers every listen and every close: a socket that is
\* binding gets its 'listening' event unless an 'error' ends the bind, and a
\* socket that is closing gets its 'close' event
SpecServerLive == SpecServer /\ WF_vars(onListening) /\ WF_vars(onClose)

\* ------------------------------------- Server (continuations of the promises)

\* the promises of listen() and close() that have resolved and whose
\* continuation (.then, or the code after an await) has not run yet
Resolved ==
  { i \in DOMAIN calls : calls[i].op \in {"listen", "close"} /\ calls[i].state = "resolved" }

\* the promise whose continuation is running
Continuing == { i \in DOMAIN calls : calls[i].state = "continuing" }

\* the job queue is empty: the event loop may deliver an event or run code of
\* the user that is not a continuation
NoJob == Resolved = {} /\ Continuing = {}

\* the continuation of the promise that resolved first starts; mark is the
\* number of calls made before it
thenStart ==
  /\ Continuing = {}
  /\ Resolved # {}
  /\ LET i == CHOOSE k \in Resolved : \A j \in Resolved : k <= j
     IN calls' = [calls EXCEPT ![i] =
                    [op |-> @.op, at |-> @.at, listened |-> @.listened,
                     state |-> "continuing", mark |-> Len(calls)]]
  /\ UNCHANGED <<readyState, server, sock, listened, errors, storeVars, sc, reqVars>>

\* the continuation makes its call on the server
thenCall ==
  /\ \E i \in Continuing : Len(calls) = calls[i].mark
  /\ listen \/ close \/ reset

\* the continuation returns
thenEnd ==
  /\ Continuing # {}
  /\ calls' = [i \in DOMAIN calls |->
                IF calls[i].state = "continuing"
                THEN [op |-> calls[i].op, at |-> calls[i].at,
                      listened |-> calls[i].listened, state |-> "continued"]
                ELSE calls[i]]
  /\ UNCHANGED <<readyState, server, sock, listened, errors, storeVars, sc, reqVars>>

NextThen ==
  \/ NoJob /\ Construct(<<"FileStore">>)
  \/ NoJob /\ listen
  \/ NoJob /\ close
  \/ NoJob /\ onListening
  \/ NoJob /\ onClose
  \/ NoJob /\ onError
  \/ thenStart
  \/ thenCall
  \/ thenEnd

SpecThen == InitServer /\ [][NextThen]_vars

\* ------------------------------------------- FileStore (called directly)

Bytes == {"x", "y"}

\* the byte strings of at most n bytes
Contents(n) == UNION { [1..k -> Bytes] : k \in 0..n }

\* the resource paths given to the store
StorePaths ==
  { <<"/", "a">>, <<"/", "a", ".">>, <<"/", "a", "/", "b">>,
    <<"/", "a", "/", "b", "/", "c">>, <<"/", "a", "/">>,
    <<"/", ".", ".", "/", "a">>, <<"a", "/", "b">> }

StoreModes == { <<"r">>, <<"w">>, <<"a">>, <<"x">> }

\* values of the start and end options
RangeVals == 0..(MaxFile + 1)

\* store.createReadStream(resource, mode, {start, end}): the executor
createReadStream(resource, mode, start, end) ==
  /\ sc.pc = "idle"
  /\ LET c == [IdleCall EXCEPT !.fn = "createReadStream", !.resource = resource,
                               !.mode = mode, !.start = start, !.end = end]
         err == ReadStreamCheck(resource, mode)
     IN sc' = IF err # NoError
              THEN [c EXCEPT !.pc = "done", !.outcome = "rejected", !.error = err]
              ELSE [c EXCEPT !.pc = "stat"]
  /\ UNCHANGED <<serverVars, storeVars, reqVars>>

\* the callback of fs.stat
statCallback ==
  /\ sc.pc = "stat"
  /\ LET err == StatCheck(GetResourcePath(sc.resource), sc.start, sc.end)
     IN sc' = IF err # NoError
              THEN [sc EXCEPT !.pc = "done", !.outcome = "rejected", !.error = err]
              ELSE IF ReadStreamThrows(sc.start, sc.end)
              THEN \* thrown inside the callback: the promise never settles
                   [sc EXCEPT !.pc = "done", !.outcome = "uncaught"]
              ELSE [sc EXCEPT !.pc = "reading", !.outcome = "resolved",
                              !.size = Len(files[GetResourcePath(sc.resource)]),
                              !.streams = 1]
  /\ UNCHANGED <<serverVars, storeVars, reqVars>>

\* the read stream is consumed to its end
readStreamEnd ==
  /\ sc.pc = "reading"
  /\ sc' = [sc EXCEPT !.pc = "done",
                      !.out = StreamBytes(files[GetResourcePath(sc.resource)],
                                          sc.start, sc.end)]
  /\ UNCHANGED <<serverVars, storeVars, reqVars>>

\* a createWriteStream that makes the file before it looks at its arguments
createWriteStream_ensureFirst(resource, mode, data) ==
  /\ sc.pc = "idle"
  /\ LET c == [IdleCall EXCEPT !.fn = "createWriteStream", !.resource = resource,
                               !.mode = mode, !.data = data]
         err == WriteStreamCheck(resource, mode)
         resourcePath == GetResourcePath(resource)
     IN /\ sc' = IF err # NoError
                 THEN [c EXCEPT !.pc = "done", !.outcome = "rejected", !.error = err]
                 ELSE [c EXCEPT !.pc = "ensure"]
        /\ files' = IF EnsureFileFails(resourcePath) THEN files
                    ELSE EnsureFiles(resourcePath)
        /\ dirs' = IF EnsureFileFails(resourcePath) THEN dirs
                   ELSE EnsureDirs(resourcePath)
  /\ UNCHANGED <<serverVars, maxDepth, reqVars>>

\* store.createWriteStream(resource, mode): the executor
createWriteStream(resource, mode, data) ==
  /\ sc.pc = "idle"
  /\ LET c == [IdleCall EXCEPT !.fn = "createWriteStream", !.resource = resource,
                               !.mode = mode, !.data = data]
         err == WriteStreamCheck(resource, mode)
     IN sc' = IF err # NoError
              THEN [c EXCEPT !.pc = "done", !.outcome = "rejected", !.error = err]
              ELSE [c EXCEPT !.pc = "ensure"]
  /\ UNCHANGED <<serverVars, storeVars, reqVars>>

\* the callback of fs.ensureFile
ensureFileCallback ==
  /\ sc.pc = "ensure"
  /\ LET resourcePath == GetResourcePath(sc.resource)
     IN IF EnsureFileFails(resourcePath)
        THEN /\ sc' = [sc EXCEPT !.pc = "done", !.outcome = "rejected",
                                 !.error = EnsureFileError(resourcePath)]
             /\ UNCHANGED <<files, dirs>>
        ELSE /\ sc' = [sc EXCEPT !.pc = "open", !.outcome = "resolved", !.streams = 1]
             /\ files' = EnsureFiles(resourcePath)
             /\ dirs' = EnsureDirs(resourcePath)
  /\ UNCHANGED <<serverVars, maxDepth, reqVars>>

\* the write stream opens its file
writeStreamOpen ==
  /\ sc.pc = "open"
  /\ LET resourcePath == GetResourcePath(sc.resource)
     IN files' = [files EXCEPT ![resourcePath] = OpenForWrite(@, sc.mode)]
  /\ sc' = [sc EXCEPT !.pc = "writing"]
  /\ UNCHANGED <<serverVars, maxDepth, dirs, reqVars>>

\* the data is written to the stream and the stream ends
writeStreamEnd ==
  /\ sc.pc = "writing"
  /\ LET resourcePath == GetResourcePath(sc.resource)
     IN /\ Len(files[resourcePath]) + Len(sc.data) <= 2 * MaxFile
        /\ files' = [files EXCEPT ![resourcePath] = WriteBytes(@, sc.mode, 0, sc.data)]
  /\ sc' = [sc EXCEPT !.pc = "done"]
  /\ UNCHANGED <<serverVars, maxDepth, dirs, reqVars>>

\* the store holds nothing, or every resource with the same content
PopulatedFiles(c) == [p \in { GetResourcePath(r) : r \in StorePaths } |-> c]

PopulatedDirs == UNION { Parents(GetResourcePath(r)) : r \in StorePaths }

InitStore ==
  /\ readyState = INIT
  /\ server = null
  /\ sock = "idle"
  /\ calls = <<>>
  /\ listened = FALSE
  /\ errors = 0
  /\ maxDepth \in 0..MaxDepthOpt
  /\ \/ files = <<>> /\ dirs = Parents(Root) \cup {Root}
     \/ \E c \in Contents(MaxFile) :
          files = PopulatedFiles(c) /\ dirs = PopulatedDirs \cup {Root}
  /\ sc = IdleCall
  /\ reqs = [i \in Slots |-> IdleRequest]
  /\ fresh = NoFresh
  /\ arrived = 0
  /\ want = <<>>

NextStore ==
  \/ \E r \in StorePaths, m \in StoreModes, st \in RangeVals, en \in RangeVals \cup {Undef} :
       createReadStream(r, m, st, en)
  \/ statCallback
  \/ readStreamEnd
  \/ \E r \in StorePaths, m \in StoreModes, d \in Contents(MaxFile) :
       createWriteStream(r, m, d)
  \/ ensureFileCallback
  \/ writeStreamOpen
  \/ writeStreamEnd

SpecStore == InitStore /\ [][NextStore]_vars

\* ------------------------------------------------ Server (requests in flight)

Methods == {"GET", "PUT", "POST", "DELETE"}

Urls == {"/download", "/upload", "/"}

\* values of the X-Resource header: absent, '', 'a', '/a', '/a.'
ResourceHeaders ==
  { undefined, <<>>, <<"a">>, <<"/", "a">>, <<"/", "a", ".">> }

\* values of the X-Mode header: absent, '', 'r', 'w', 'a', 'x'
ModeHeaders == { undefined, <<>>, <<"r">>, <<"w">>, <<"a">>, <<"x">> }

\* the requests a client sends; the body matters for an upload only
Requests ==
  { in \in [method : Methods, url : Urls, xresource : ResourceHeaders,
            xmode : ModeHeaders, body : Contents(MaxBody)] :
      in.body # <<>> => isUpload(in) /\ hasValidResource(in) }

\* no request is being handled
Quiet == \A j \in Slots : reqs[j].pc = "idle"

InFlight(j) == reqs[j].pc \notin {"idle", "done", "piped", "hung"}

\* two resource names that the store maps to one file
SameFile(a, b) == GetResourcePath(a) = GetResourcePath(b)

\* request j is in progress on the file of the resource of request in
Overlaps(j, in) ==
  /\ InFlight(j)
  /\ hasValidResource(reqs[j])
  /\ hasValidResource(in)
  /\ SameFile(Resource(reqs[j]), Resource(in))

\* history: what the arrival of request r does to a recorded upload e
Disturb(e, r) ==
  IF ~e.set THEN e
  ELSE IF Resource(r) = e.res THEN NoExpect
  ELSE IF hasValidResource(r) /\ SameFile(Resource(r), e.res)
  THEN [e EXCEPT !.alias = TRUE]
  ELSE e

\* history: what a completed upload of body in the given mode is to leave in
\* the file: 'w' replaces the content, 'a' extends it
Uploaded(resourcePath, mode, body) ==
  LET before == IF resourcePath \in DOMAIN want
                THEN want[resourcePath].content ELSE <<>>
  IN (resourcePath :>
        [content |-> IF mode = MODE_WRITE THEN body ELSE before \o body,
         mode |-> mode]) @@ want

\* 'request' / 'checkContinue': onRequest, _handleRequest, of a Server whose
\* _store is store
onRequestWith(i, in, store) ==
  /\ readyState = LISTENING
  /\ arrived < MaxReqs
  /\ reqs[i].pc = "idle"
  /\ \A j \in Slots : j < i => reqs[j].pc # "idle"
  /\ LET r == [IdleRequest EXCEPT !.method = in.method, !.url = in.url,
                                  !.xresource = in.xresource, !.xmode = in.xmode,
                                  !.body = in.body,
                                  !.store = store,
                                  !.overlap = \E j \in Slots \ {i} : Overlaps(j, in),
                                  !.expect =
                                     IF /\ fresh.set
                                        /\ Resource(in) = fresh.res
                                        /\ getAction(in) = ACTION_DOWNLOAD
                                        /\ Or(Mode(in), <<"r">>) = <<"r">>
                                     THEN fresh ELSE NoExpect]
     IN reqs' = [j \in Slots |->
                   IF j = i THEN handleRequest(r)
                   ELSE [reqs[j] EXCEPT !.expect = Disturb(@, in),
                                        !.overlap = @ \/ Overlaps(j, in)]]
  /\ fresh' = Disturb(fresh, in)
  /\ arrived' = arrived + 1
  /\ UNCHANGED <<serverVars, storeVars, sc, want>>

\* 'request' / 'checkContinue' of a Server built with a FileStore
onRequest(i, in) == onRequestWith(i, in, "FileStore")

\* the callback of fs.stat, then the then or the catch of _handleRead
readStat(i) ==
  /\ reqs[i].pc = "stat"
  /\ LET r == reqs[i]
         resourcePath == GetResourcePath(Resource(r))
         err == StatCheck(resourcePath, 0, Undef)
     IN reqs' = [reqs EXCEPT ![i] =
          IF err # NoError THEN handleReadCatch(Rejected(r, err), err)
          ELSE \* writeHead(200, ...); stream.pipe(response.original)
               [r EXCEPT !.resolved = [kind |-> "resolved"],
                         !.statusCode = 200,
                         !.headers = ("Content-Length" :> Len(files[resourcePath]))
                                       @@ ("Last-Modified" :> "ctime"),
                         !.headersSent = TRUE,
                         !.streams = @ + 1,
                         !.pc = "read"]]
  /\ UNCHANGED <<serverVars, storeVars, sc, fresh, arrived, want>>

\* the read stream is piped to its end into the response, which ends
readPipeEnd(i) ==
  /\ reqs[i].pc = "read"
  /\ LET r == reqs[i]
     IN reqs' = [reqs EXCEPT ![i] =
          [r EXCEPT !.bytes = StreamBytes(files[GetResourcePath(Resource(r))], 0, Undef),
                    !.ended = TRUE,
                    !.pc = "ending"]]
  /\ UNCHANGED <<serverVars, storeVars, sc, fresh, arrived, want>>

\* the callback of fs.ensureFile, then the then or the catch of _handleWrite
writeEnsure(i) ==
  /\ reqs[i].pc = "ensure"
  /\ LET r == reqs[i]
         resourcePath == GetResourcePath(Resource(r))
     IN IF EnsureFileFails(resourcePath)
        THEN /\ reqs' = [reqs EXCEPT ![i] =
                  handleWriteCatch(Rejected(r, EnsureFileError(resourcePath)),
                                   EnsureFileError(resourcePath))]
             /\ UNCHANGED <<files, dirs>>
        ELSE \* writeContinue(); request.original.pipe(stream)
             /\ reqs' = [reqs EXCEPT ![i] =
                  [r EXCEPT !.resolved = [kind |-> "resolved"],
                            !.continued = TRUE, !.streams = @ + 1, !.pc = "open"]]
             /\ files' = EnsureFiles(resourcePath)
             /\ dirs' = EnsureDirs(resourcePath)
  /\ UNCHANGED <<serverVars, maxDepth, sc, fresh, arrived, want>>

\* the write stream opens its file
writeOpen(i) ==
  /\ reqs[i].pc = "open"
  /\ LET r == reqs[i]
     IN files' = [files EXCEPT ![GetResourcePath(Resource(r))] =
                    OpenForWrite(@, Or(Mode(r), <<"w">>))]
  /\ reqs' = [reqs EXCEPT ![i].pc = "write"]
  /\ UNCHANGED <<serverVars, maxDepth, dirs, sc, fresh, arrived, want>>

\* the request body is piped to its end into the write stream
writePipeEnd(i) ==
  /\ reqs[i].pc = "write"
  /\ LET r == reqs[i]
         resourcePath == GetResourcePath(Resource(r))
         mode == Or(Mode(r), <<"w">>)
     IN /\ Len(files[resourcePath]) + Len(r.body) <= MaxFile
        /\ files' = [files EXCEPT ![resourcePath] = WriteBytes(@, mode, 0, r.body)]
        /\ reqs' = [reqs EXCEPT ![i] = [r EXCEPT !.piped = r.body, !.pc = "piped"]]
        /\ fresh' =
             IF mode # MODE_WRITE THEN fresh
             ELSE IF \E j \in Slots \ {i} : InFlight(j) /\ Resource(reqs[j]) = Resource(r)
             THEN NoFresh
             ELSE [res |-> Resource(r), content |-> r.body, set |-> TRUE,
                   overlap |-> r.overlap,
                   alias |-> \E j \in Slots \ {i} :
                               /\ InFlight(j)
                               /\ hasValidResource(reqs[j])
                               /\ SameFile(Resource(reqs[j]), Resource(r))]
        /\ want' = Uploaded(resourcePath, mode, r.body)
  /\ UNCHANGED <<serverVars, maxDepth, dirs, sc, arrived>>

\* a 'finish' listener that leaves the state as it is
onFinish_open(i) ==
  /\ reqs[i].pc = "ending"
  /\ reqs' = [reqs EXCEPT ![i].pc = "done"]
  /\ UNCHANGED <<serverVars, storeVars, sc, fresh, arrived, want>>

\* 'finish' of the http.ServerResponse: the listener of the Response constructor
onFinish(i) ==
  /\ reqs[i].pc = "ending"
  /\ reqs' = [reqs EXCEPT ![i].state = FINISHED, ![i].pc = "done"]
  /\ UNCHANGED <<serverVars, storeVars, sc, fresh, arrived, want>>

\* the request is over and its Request and Response are dropped
release(i) ==
  /\ reqs[i].pc \in {"done", "piped", "hung"}
  /\ reqs' = [reqs EXCEPT ![i] = IdleRequest]
  /\ UNCHANGED <<serverVars, storeVars, sc, fresh, arrived, want>>

\* the next request of a client that waits for the end of each request
nextRequest(i, in) == Quiet /\ onRequest(i, in)

\* a server that listens, with a FileStore with the default options on an
\* empty root; clients send one request after the other
Init ==
  /\ readyState = LISTENING
  /\ server = <<"http.Server">>
  /\ sock = "bound"
  /\ calls = << [op |-> "listen", at |-> READY, listened |-> FALSE, state |-> "resolved"] >>
  /\ listened = TRUE
  /\ errors = 0
  /\ maxDepth = 0
  /\ files = <<>>
  /\ dirs = Parents(Root) \cup {Root}
  /\ sc = IdleCall
  /\ reqs = [i \in Slots |-> IdleRequest]
  /\ fresh = NoFresh
  /\ arrived = 0
  /\ want = <<>>

Next ==
  \/ \E i \in Slots, in \in Requests : nextRequest(i, in)
  \/ \E i \in Slots : readStat(i)
  \/ \E i \in Slots : readPipeEnd(i)
  \/ \E i \in Slots : writeEnsure(i)
  \/ \E i \in Slots : writeOpen(i)
  \/ \E i \in Slots : writePipeEnd(i)
  \/ \E i \in Slots : onFinish(i)
  \/ \E i \in Slots : release(i)

Spec == Init /\ [][Next]_vars

\* downloads and uploads of clients that do not wait for each other, on two
\* resource names of one file
ConcRequests ==
  { in \in Requests :
      \/ /\ isDownload(in)
         /\ in.xresource = <<"/", "a">>
         /\ in.xmode = undefined
      \/ /\ isUpload(in) /\ in.method = "PUT"
         /\ \/ /\ in.xresource = <<"/", "a">>
               /\ in.xmode = MODE_WRITE
               /\ Len(in.body) <= 1
            \/ /\ in.xresource \in { <<"/", "a">>, <<"/", "a", ".">> }
               /\ in.xmode \in {MODE_WRITE, MODE_APPEND}
               /\ in.body = <<"x">> }

NextConc ==
  \/ \E i \in Slots, in \in ConcRequests : onRequest(i, in)
  \/ \E i \in Slots : readStat(i)
  \/ \E i \in Slots : readPipeEnd(i)
  \/ \E i \in Slots : writeEnsure(i)
  \/ \E i \in Slots : writeOpen(i)
  \/ \E i \in Slots : writePipeEnd(i)
  \/ \E i \in Slots : onFinish(i)
  \/ \E i \in Slots : release(i)

SpecConc == Init /\ [][NextConc]_vars

\* the file system answers every call, every stream runs to its end and the
\* transport flushes every response that was ended
Progress ==
  \E i \in Slots :
    \/ readStat(i)
    \/ readPipeEnd(i)
    \/ writeEnsure(i)
    \/ writeOpen(i)
    \/ writePipeEnd(i)
    \/ onFinish(i)

\* the requests of the clients whose handling is followed to its end: to the
\* two endpoints and to another url, with a valid and an invalid resource,
\* without mode and with an unsupported one
LiveRequests ==
  { in \in Requests :
      /\ in.method \in {"GET", "PUT"}
      /\ in.xresource \in { <<"/", "a">>, <<"a">> }
      /\ in.xmode \in { undefined, <<"x">> } }

NextLive ==
  \/ \E i \in Slots, in \in LiveRequests : nextRequest(i, in)
  \/ Progress
  \/ \E i \in Slots : release(i)

SpecLive == Init /\ [][NextLive]_vars /\ WF_vars(Progress)

\* ------------------------------------------- Server (resources below the root)

\* values of the X-Resource header that name nested resources: '/a', '/a./b',
\* '/a/b/c', '/../a'
DeepResources ==
  { <<"/", "a">>, <<"/", "a", ".", "/", "b">>,
    <<"/", "a", "/", "b", "/", "c">>, <<"/", ".", ".", "/", "a">> }

\* downloads and uploads of nested resources, without mode and with an
\* unsupported one
DeepRequests ==
  { in \in [method : {"GET", "PUT"}, url : {"/download", "/upload"},
            xresource : DeepResources, xmode : { undefined, <<"x">> },
            body : { <<>>, <<"x">> }] :
      /\ isDownload(in) \/ isUpload(in)
      /\ in.body # <<>> <=> isUpload(in) }

\* a server that listens, with a FileStore with a maxDepth option on an empty
\* root
InitDeep ==
  /\ readyState = LISTENING
  /\ server = <<"http.Server">>
  /\ sock = "bound"
  /\ calls = << [op |-> "listen", at |-> READY, listened |-> FALSE, state |-> "resolved"] >>
  /\ listened = TRUE
  /\ errors = 0
  /\ maxDepth \in 0..MaxDepthOpt
  /\ files = <<>>
  /\ dirs = Parents(Root) \cup {Root}
  /\ sc = IdleCall
  /\ reqs = [i \in Slots |-> IdleRequest]
  /\ fresh = NoFresh
  /\ arrived = 0
  /\ want = <<>>

NextDeep ==
  \/ \E i \in Slots, in \in DeepRequests : nextRequest(i, in)
  \/ \E i \in Slots : readStat(i)
  \/ \E i \in Slots : readPipeEnd(i)
  \/ \E i \in Slots : writeEnsure(i)
  \/ \E i \in Slots : writeOpen(i)
  \/ \E i \in Slots : writePipeEnd(i)
  \/ \E i \in Slots : onFinish(i)
  \/ \E i \in Slots : release(i)

SpecDeep == InitDeep /\ [][NextDeep]_vars

\* ------------------------------------------ Server (with a store of the user)

\* the requests sent to a server with a store of the user
PlugRequests ==
  { in \in Requests :
      /\ in.xresource = <<"/", "a">>
      /\ isDownload(in) \/ (isUpload(in) /\ in.method = "PUT")
      /\ in.xmode \in {undefined, MODE_READ, MODE_WRITE} }

\* what the store rejects its promise with: typed errors, a plain Error and a
\* value that is not an Error
StoreErrors ==
  { RequestError("Unsupported Mode", BAD_REQUEST, EmptyHeaders, NoError),
    RequestError("Range Not Satisfiable", RANGE_NOT_SATISFIABLE, EmptyHeaders, NoError),
    FsError("EIO"),
    NotAnError }

\* what the promise of the store settles with: a value of one of the shapes,
\* holding a stream of the given content, or an error
Outcomes(shapes) ==
  { [kind |-> "resolved", shape |-> sh, content |-> c, error |-> NoError] :
      sh \in shapes, c \in Contents(MaxBody) }
  \cup { [kind |-> "rejected", shape |-> "", content |-> <<>>, error |-> e] :
           e \in StoreErrors }

\* createReadStream resolves with { stream, stats }, with the stream alone, or
\* with { stats } and nothing that can be piped
ReadOutcomes == Outcomes({"stream and stats", "stream", "stats"})

\* createWriteStream resolves with a stream or with nothing
WriteOutcomes ==
  { out \in Outcomes({"stream", "none"}) : out.content = <<>> }

\* a request arrives at a server with a store of the user
plugRequest(i, in) == Quiet /\ onRequestWith(i, in, "custom")

\* the promise of createReadStream settles: the then or the catch of _handleRead
plugRead(i, out) ==
  /\ reqs[i].pc = "pending"
  /\ isDownload(reqs[i])
  /\ LET r == [reqs[i] EXCEPT !.resolved = out, !.storeError = out.error]
         \* writeHead(200, { 'Content-Length': stats.size, ... })
         sent == [r EXCEPT !.statusCode = 200,
                           !.headers = ("Content-Length" :> Len(out.content))
                                         @@ ("Last-Modified" :> "ctime"),
                           !.headersSent = TRUE]
     IN reqs' = [reqs EXCEPT ![i] =
          IF out.kind = "rejected" THEN handleReadCatch(r, out.error)
          ELSE IF out.shape = "stream"
          THEN \* stats is undefined: stats.size throws before writeHead is called
               handleReadCatch(r, TypeError("Cannot read property 'size' of undefined"))
          ELSE IF out.shape = "stats"
          THEN \* stream is undefined: stream.pipe throws after writeHead
               handleReadCatch(sent, TypeError("Cannot read property 'pipe' of undefined"))
          ELSE [sent EXCEPT !.streams = @ + 1, !.pc = "plugread"]]
  /\ UNCHANGED <<serverVars, storeVars, sc, fresh, arrived, want>>

\* a stream that ends the response without the bytes of the store
plugReadEnd_nothing(i) ==
  /\ reqs[i].pc = "plugread"
  /\ reqs' = [reqs EXCEPT ![i] = [@ EXCEPT !.ended = TRUE, !.pc = "ending"]]
  /\ UNCHANGED <<serverVars, storeVars, sc, fresh, arrived, want>>

\* the stream of the store is piped to its end into the response, which ends
plugReadEnd(i) ==
  /\ reqs[i].pc = "plugread"
  /\ reqs' = [reqs EXCEPT ![i] =
       [@ EXCEPT !.bytes = reqs[i].resolved.content, !.ended = TRUE, !.pc = "ending"]]
  /\ UNCHANGED <<serverVars, storeVars, sc, fresh, arrived, want>>

\* the promise of createWriteStream settles: the then or the catch of _handleWrite
plugWrite(i, out) ==
  /\ reqs[i].pc = "pending"
  /\ isUpload(reqs[i])
  /\ LET r == [reqs[i] EXCEPT !.resolved = out, !.storeError = out.error]
         \* response.original.writeContinue()
         cont == [r EXCEPT !.continued = TRUE]
     IN reqs' = [reqs EXCEPT ![i] =
          IF out.kind = "rejected" THEN handleWriteCatch(r, out.error)
          ELSE IF out.shape = "none"
          THEN \* request.original.pipe(undefined) throws
               handleWriteCatch(cont, TypeError("Cannot read property 'on' of undefined"))
          ELSE [cont EXCEPT !.streams = @ + 1, !.pc = "plugwrite"]]
  /\ UNCHANGED <<serverVars, storeVars, sc, fresh, arrived, want>>

\* the request body is piped to its end into the stream of the store
plugWriteEnd(i) ==
  /\ reqs[i].pc = "plugwrite"
  /\ reqs' = [reqs EXCEPT ![i] = [@ EXCEPT !.piped = reqs[i].body, !.pc = "piped"]]
  /\ UNCHANGED <<serverVars, storeVars, sc, fresh, arrived, want>>

NextPlug ==
  \/ \E i \in Slots, in \in PlugRequests : plugRequest(i, in)
  \/ \E i \in Slots, out \in ReadOutcomes : plugRead(i, out)
  \/ \E i \in Slots : plugReadEnd(i)
  \/ \E i \in Slots, out \in WriteOutcomes : plugWrite(i, out)
  \/ \E i \in Slots : plugWriteEnd(i)
  \/ \E i \in Slots : onFinish(i)
  \/ \E i \in Slots : release(i)

SpecPlug == Init /\ [][NextPlug]_vars

\* ------------------------------------------------- Response (used directly)

ErrorMessages == {"", "Not Found", "Resource Not Accessible"}

StatusCodes == {BAD_REQUEST, NOT_FOUND, RANGE_NOT_SATISFIABLE, INTERNAL_SERVER_ERROR}

\* header sets a caller gives to RequestError: none, one of its own, and one
\* that names the three headers of every RequestError
CallerHeaders ==
  { EmptyHeaders,
    ("X-A" :> "1"),
    ("Content-Type" :> "text/html") @@ ("Content-Length" :> 99)
      @@ ("Connection" :> "keep-alive") @@ ("X-A" :> "1") }

\* the values given to writeError: RequestErrors built directly and through
\* wrap, a plain Error, and null
Errors ==
  { RequestError(m, c, h, NoError) :
      m \in ErrorMessages, c \in StatusCodes, h \in CallerHeaders }
  \cup { RequestErrorWrap(FsError("ENOENT"), c, m, h) :
           m \in ErrorMessages \cup {"null"}, c \in StatusCodes, h \in CallerHeaders }
  \cup { FsError("ENOENT"), NoError }

\* Response.from(response), the constructor
ResponseFrom ==
  /\ reqs[1].pc = "idle"
  /\ reqs' = [reqs EXCEPT ![1] = [IdleRequest EXCEPT !.pc = "constructed"]]
  /\ UNCHANGED <<serverVars, storeVars, sc, fresh, arrived, want>>

\* response.original.writeHead(200, headers): a streamed answer starts
writeHead(size) ==
  /\ reqs[1].pc = "constructed"
  /\ reqs' = [reqs EXCEPT ![1] =
       [@ EXCEPT !.statusCode = 200,
                 !.headers = ("Content-Length" :> size) @@ ("Last-Modified" :> "ctime"),
                 !.headersSent = TRUE,
                 !.pc = "streaming"]]
  /\ UNCHANGED <<serverVars, storeVars, sc, fresh, arrived, want>>

\* response.original.end(): the streamed answer is over
end ==
  /\ reqs[1].pc = "streaming"
  /\ reqs' = [reqs EXCEPT ![1] = [@ EXCEPT !.ended = TRUE, !.pc = "ending"]]
  /\ UNCHANGED <<serverVars, storeVars, sc, fresh, arrived, want>>

\* response.writeError(error), called in any state of the Response
callWriteError(error) ==
  /\ reqs[1].pc # "idle"
  /\ reqs[1].writeErrors < MaxWrites
  /\ LET w == writeError(reqs[1], error)
     IN reqs' = [reqs EXCEPT ![1] =
                   IF w.threw = "" THEN [w EXCEPT !.pc = "ending"] ELSE w]
  /\ UNCHANGED <<serverVars, storeVars, sc, fresh, arrived, want>>

InitResponse ==
  /\ readyState = INIT
  /\ server = null
  /\ sock = "idle"
  /\ calls = <<>>
  /\ listened = FALSE
  /\ errors = 0
  /\ maxDepth = 0
  /\ files = <<>>
  /\ dirs = Parents(Root) \cup {Root}
  /\ sc = IdleCall
  /\ reqs = [i \in Slots |-> IdleRequest]
  /\ fresh = NoFresh
  /\ arrived = 0
  /\ want = <<>>

NextResponse ==
  \/ ResponseFrom
  \/ \E size \in 0..MaxFile : writeHead(size)
  \/ end
  \/ \E error \in Errors : callWriteError(error)
  \/ onFinish(1)

SpecResponse == InitResponse /\ [][NextResponse]_vars

\* the transport flushes a response that was ended and emits 'finish'
SpecResponseLive == SpecResponse /\ WF_vars(onFinish(1))

\* ------------------------------------------------------------------ claims

\* the step is a call of op: one promise is added to calls
Called(op) ==
  /\ Len(calls') = Len(calls) + 1
  /\ calls'[Len(calls')].op = op

Returned == calls'[Len(calls')].state

\* C1: listen() succeeds only when called in READY and close() only when
\* called in LISTENING; a call in any other state is rejected at once and
\* leaves the readiness state, the http.Server and its socket as they were.
C1_GuardedListenClose ==
  /\ [](\A i \in DOMAIN calls :
          calls[i].state = "resolved" =>
            /\ calls[i].op = "listen" => calls[i].at = READY
            /\ calls[i].op = "close" => calls[i].at = LISTENING)
  /\ [][(\/ Called("listen") /\ readyState # READY
         \/ Called("close") /\ readyState # LISTENING)
        => /\ Returned = "rejected"
           /\ readyState' = readyState
           /\ server' = server
           /\ sock' = sock
           /\ SubSeq(calls', 1, Len(calls)) = calls]_vars

C1_Witness ==
  /\ \E i \in DOMAIN calls :
        calls[i].op = "listen" /\ calls[i].at = LISTENING /\ calls[i].state = "rejected"
  /\ \E i \in DOMAIN calls :
        calls[i].op = "listen" /\ calls[i].at = CLOSED /\ calls[i].state = "rejected"
  /\ \E i \in DOMAIN calls :
        calls[i].op = "close" /\ calls[i].at = READY /\ calls[i].state = "rejected"
  /\ \E i \in DOMAIN calls : calls[i].op = "close" /\ calls[i].state = "resolved"

\* C2: after a listen() call, no further listen() call succeeds until
\* close() and reset() have run, whenever it is made; and close() on a server
\* on which listen() was never called is rejected.
C2_SecondListenFails ==
  \A i \in DOMAIN calls :
    /\ (calls[i].op = "listen" /\ calls[i].listened) => calls[i].state # "resolved"
    /\ (calls[i].op = "close" /\ \A j \in 1..(i - 1) : calls[j].op # "listen")
         => calls[i].state = "rejected"

\* C3: the readiness state is READY after construction and then changes only
\* READY -> LISTENING on 'listening', LISTENING -> CLOSED on 'close' and
\* CLOSED -> READY by reset().
C3_OnlyLegalTransitions ==
  [][readyState' # readyState =>
       \/ /\ server = null /\ server' # null
          /\ readyState = INIT /\ readyState' = READY
       \/ /\ readyState = READY /\ readyState' = LISTENING
          /\ sock = "binding" /\ sock' = "bound"
       \/ /\ readyState = LISTENING /\ readyState' = CLOSED
          /\ sock = "closing" /\ sock' = "idle"
       \/ /\ readyState = CLOSED /\ readyState' = READY
          /\ Called("reset")]_vars

C3_Witness ==
  /\ readyState = READY
  /\ errors > 0
  /\ \E i \in DOMAIN calls : calls[i].op = "reset" /\ calls[i].state = "resolved"
  /\ \E i \in DOMAIN calls : calls[i].op = "reset" /\ calls[i].state = "rejected"
  /\ \E i \in DOMAIN calls : calls[i].op = "listen" /\ calls[i].state = "rejected"

\* C4: reset() succeeds exactly when called in CLOSED and then sets READY;
\* from READY or LISTENING it is rejected and changes nothing; after a
\* reset, listen() is accepted again, so listen, close, reset repeats.
C4_ResetReuse ==
  [][/\ Called("reset") =>
          IF readyState = CLOSED
          THEN Returned = "resolved" /\ readyState' = READY
          ELSE Returned = "rejected" /\ readyState' = readyState /\ sock' = sock
      /\ (Called("listen") /\ readyState = READY /\ ~listened) =>
          Returned = "pending" /\ sock' = "binding"]_vars

\* two whole cycles on one server, and a third listen() that succeeded
C4_Witness ==
  /\ Len(calls) >= 7
  /\ \A i \in 1..7 : calls[i].state = "resolved"
  /\ \A i \in {1, 4, 7} : calls[i].op = "listen"
  /\ \A i \in {2, 5} : calls[i].op = "close"
  /\ \A i \in {3, 6} : calls[i].op = "reset"
  /\ readyState = LISTENING

\* the '/'-delimited segments of a resource path that starts with '/'
Segments(resource) == Split(Tail(resource), "/")

IsResourcePath(resource) == resource # <<>> /\ Head(resource) = "/"

\* the store call would pass every check but the depth check
OtherwiseFine ==
  LET resourcePath == GetResourcePath(sc.resource)
  IN IF sc.fn = "createReadStream"
     THEN /\ sc.mode \in MODES_READ
          /\ resourcePath \in DOMAIN sc.files0
          /\ sc.start <= Len(sc.files0[resourcePath])
          /\ sc.end # Undef => sc.end <= Len(sc.files0[resourcePath]) /\ sc.start <= sc.end
     ELSE /\ sc.mode \in MODES_WRITE
          /\ resourcePath \in DOMAIN sc.files0

\* C8: with maxDepth d > 0, createReadStream and createWriteStream reject a
\* resource path with the 400 depth error exactly when it has more than d
\* segments; a path of d or fewer segments passes the depth check and the
\* call resolves when mode, existence and range are fine; with maxDepth 0 no
\* path gets the depth error.
C8_DepthLimit ==
  (sc.pc # "idle" /\ IsResourcePath(sc.resource)) =>
    /\ sc.error = DepthError <=> (maxDepth > 0 /\ Len(Segments(sc.resource)) > maxDepth)
    /\ sc.error = DepthError =>
         sc.outcome = "rejected" /\ sc.error.statusCode = 400 /\ sc.streams = 0
    /\ (sc.pc \notin {"stat", "ensure"} /\ OtherwiseFine
          /\ ~(maxDepth > 0 /\ Len(Segments(sc.resource)) > maxDepth))
         => sc.outcome = "resolved" /\ sc.streams = 1

\* a path of d + 1 segments is refused by a store with maxDepth d
C8_Witness ==
  /\ maxDepth = 2
  /\ sc.fn = "createWriteStream"
  /\ sc.mode = MODE_WRITE
  /\ sc.resource = <<"/", "a", "/", "b", "/", "c">>
  /\ sc.outcome = "rejected"
  /\ sc.error.statusCode = 400

\* C9: a read of an existing resource of size s with range {start, end},
\* start <= end,
\* fails with 416 and creates no stream if start > s or end > s, and
\* otherwise creates a stream that delivers min(end, s) - start bytes.
C9_RangeBytes ==
  LET resourcePath == GetResourcePath(sc.resource)
  IN (/\ sc.fn = "createReadStream"
      /\ sc.pc = "done"
      /\ ReadStreamCheck(sc.resource, sc.mode) = NoError
      /\ resourcePath \in DOMAIN sc.files0
      /\ sc.end # Undef => sc.start <= sc.end)
     => LET s == Len(sc.files0[resourcePath])
        IN IF sc.start > s \/ (sc.end # Undef /\ sc.end > s)
           THEN /\ sc.outcome = "rejected"
                /\ sc.error.statusCode = 416
                /\ sc.streams = 0
           ELSE /\ sc.outcome = "resolved"
                /\ sc.streams = 1
                /\ Len(sc.out) = (IF sc.end = Undef THEN s ELSE Min(sc.end, s)) - sc.start

\* the response of request i has been written to its end
Answered(i) == reqs[i].pc \in {"ending", "done"}

\* the request is to one of the two endpoints
OnEndpoint(r) ==
  <<r.method, r.url>> \in
    { <<"GET", "/download">>, <<"PUT", "/upload">>, <<"POST", "/upload">> }

BadResourceHeader(r) ==
  \/ r.xresource = undefined
  \/ r.xresource = <<>>
  \/ Head(r.xresource) # "/"

\* C6 as stated: a request whose X-Resource header is absent or does not
\* start with '/' is resource-invalid and is answered with a 400, whatever
\* its action.
C6_BadResource400 ==
  \A i \in Slots :
    (reqs[i].pc # "idle" /\ BadResourceHeader(reqs[i])) =>
      /\ ~hasValidResource(reqs[i])
      /\ Answered(i)
      /\ reqs[i].statusCode = 400

\* C6 amended: such a request is resource-invalid whatever its action; it is
\* answered with the 400 'Invalid Resource' error when its action is download
\* or upload, and with the 404 of the invalid action otherwise; in both cases
\* no event is emitted and the store is not called.
C6_BadResource400OnEndpoint ==
  \A i \in Slots :
    (reqs[i].pc # "idle" /\ BadResourceHeader(reqs[i])) =>
      /\ ~hasValidResource(reqs[i])
      /\ Answered(i)
      /\ reqs[i].statusCode = IF OnEndpoint(reqs[i]) THEN 400 ELSE 404
      /\ reqs[i].text = IF OnEndpoint(reqs[i]) THEN "Invalid Resource" ELSE "Not Found"
      /\ reqs[i].events = <<>>
      /\ reqs[i].storeCalls = <<>>

C6_Witness ==
  \E i \in Slots :
    /\ reqs[i].pc = "done"
    /\ reqs[i].method = "POST"
    /\ reqs[i].url = "/upload"
    /\ reqs[i].xresource = <<"a">>
    /\ reqs[i].statusCode = 400

\* C7: a resource-valid download whose X-Mode value is not 'r', and a
\* resource-valid upload whose X-Mode value is neither 'w' nor 'a', is
\* answered with a 400 and no stream is created for it.
C7_BadMode400 ==
  \A i \in Slots :
    LET r == reqs[i]
    IN (/\ r.pc # "idle"
        /\ hasValidResource(r)
        /\ r.xmode # undefined
        /\ \/ isDownload(r) /\ r.xmode # <<"r">>
           \/ isUpload(r) /\ r.xmode \notin { <<"w">>, <<"a">> })
       => /\ r.streams = 0
          /\ r.pc \notin {"read", "open", "write", "piped"}
          /\ Answered(i) => r.statusCode = 400

\* C10 as stated: a download of R that follows a completed write-mode upload
\* of C to R, with no other request on R in between, is answered with 200,
\* body C and Content-Length len(C).
C10_RoundTrip ==
  \A i \in Slots :
    (reqs[i].expect.set /\ Answered(i)) =>
      /\ reqs[i].statusCode = 200
      /\ reqs[i].bytes = reqs[i].expect.content
      /\ reqs[i].headers["Content-Length"] = Len(reqs[i].expect.content)

\* C10 amended: the same, when no other request on the file of R, under the
\* name R or under another resource name that the store maps to that file, is
\* in progress at any time from the arrival of the upload to the end of the
\* download.
C10_RoundTripSameFile ==
  \A i \in Slots :
    (/\ reqs[i].expect.set
     /\ ~reqs[i].expect.alias
     /\ ~reqs[i].expect.overlap
     /\ ~reqs[i].overlap
     /\ Answered(i)) =>
      /\ reqs[i].statusCode = 200
      /\ reqs[i].bytes = reqs[i].expect.content
      /\ reqs[i].headers["Content-Length"] = Len(reqs[i].expect.content)

C10_Witness ==
  \E i \in Slots :
    /\ reqs[i].pc = "done"
    /\ reqs[i].expect.set
    /\ ~reqs[i].expect.alias
    /\ ~reqs[i].expect.overlap
    /\ ~reqs[i].overlap
    /\ reqs[i].expect.content = <<"y">>
    /\ reqs[i].bytes = <<"y">>
    /\ reqs[i].statusCode = 200

\* a download in read mode of a resource with a valid name
ReadOf(r) ==
  /\ isDownload(r)
  /\ hasValidResource(r)
  /\ Or(Mode(r), MODE_READ) = MODE_READ

\* C11: after completed uploads made one after the other to a resource, a
\* download returns what they are to leave: an upload in append mode adds its
\* body to the content that was there, an upload in write mode leaves its body
\* alone; the response is a 200 with that content and its length.
C11_AppendSemantics ==
  \A i \in Slots :
    LET r == reqs[i]
        resourcePath == GetResourcePath(Resource(r))
    IN (ReadOf(r) /\ Answered(i) /\ resourcePath \in DOMAIN want) =>
         /\ r.statusCode = 200
         /\ r.bytes = want[resourcePath].content
         /\ r.headers["Content-Length"] = Len(want[resourcePath].content)

C11_Witness ==
  \E i \in Slots :
    LET r == reqs[i]
        resourcePath == GetResourcePath(Resource(r))
    IN /\ ReadOf(r)
       /\ r.pc = "done"
       /\ resourcePath \in DOMAIN want
       /\ want[resourcePath].mode = MODE_APPEND
       /\ want[resourcePath].content = <<"x", "y">>
       /\ r.bytes = <<"x", "y">>

\* the step holds a call of writeError on the response of slot i
WriteErrorCalled(i) == reqs'[i].writeErrors = reqs[i].writeErrors + 1

\* what has been written to the underlying response
Wire(r) ==
  <<r.statusCode, r.statusMessage, r.headers, r.headersSent, r.text, r.ended>>

\* C12: a call of writeError on a response whose state is finished, or whose
\* headers have been sent, throws and writes nothing to the underlying
\* response; a call writes only when the state is open and no header was sent.
C12_WriteErrorGuard ==
  [][\A i \in Slots :
       WriteErrorCalled(i) =>
         /\ (reqs[i].state = FINISHED \/ reqs[i].headersSent) =>
              /\ reqs'[i].threw # ""
              /\ Wire(reqs'[i]) = Wire(reqs[i])
              /\ reqs'[i].state = reqs[i].state
         /\ Wire(reqs'[i]) # Wire(reqs[i]) =>
              /\ reqs[i].state = OPEN
              /\ ~reqs[i].headersSent
              /\ reqs'[i].threw = ""]_vars

C12_Witness ==
  /\ reqs[1].writeErrors = 2
  /\ reqs[1].threw = "response is not open"
  /\ reqs[1].state = FINISHED
  /\ reqs[1].statusCode = NOT_FOUND
  /\ reqs[1].error.statusCode = BAD_REQUEST

\* the last call of writeError on the response of slot i was legal
LegalWrite(i) ==
  /\ reqs[i].writeErrors > 0
  /\ reqs[i].threw = ""
  /\ reqs[i].error.type = "RequestError"

\* C13: after a legal writeError(e) the response carries e's status code, e's
\* message as status text and as body and e's headers, and it is ended; its
\* state then becomes finished; a state that is finished stays finished,
\* whether the response ended through writeError or through streaming.
C13_WriteErrorFinishes ==
  /\ [](\A i \in Slots :
          LegalWrite(i) =>
            /\ reqs[i].statusCode = reqs[i].error.statusCode
            /\ reqs[i].statusMessage = reqs[i].error.message
            /\ reqs[i].text = reqs[i].error.message
            /\ reqs[i].headers = reqs[i].error.headers
            /\ reqs[i].ended)
  /\ \A i \in Slots : LegalWrite(i) ~> (reqs[i].state = FINISHED)
  /\ [][\A i \in Slots :
          reqs[i].state = FINISHED => reqs'[i].state = FINISHED]_vars

C13_Witness ==
  /\ reqs[1].state = FINISHED
  /\ LegalWrite(1)
  /\ reqs[1].writeErrors = 1
  /\ reqs[1].statusCode = RANGE_NOT_SATISFIABLE
  /\ reqs[1].text = "Not Found"

\* C18: the headers of every RequestError, built directly or by wrap, with any
\* headers of the caller, hold Content-Type: text/plain, Connection: close and
\* the byte length of the message as Content-Length; the body of the error
\* response is the message.
C18_ErrorHeaders ==
  \A i \in Slots :
    LET e == reqs[i].error
    IN e.type = "RequestError" =>
         /\ {"Content-Type", "Content-Length", "Connection"} \subseteq DOMAIN e.headers
         /\ e.headers["Content-Type"] = "text/plain"
         /\ e.headers["Connection"] = "close"
         /\ e.headers["Content-Length"] = ByteLength(e.message)
         /\ reqs[i].threw = "" =>
              /\ reqs[i].text = e.message
              /\ reqs[i].headers = e.headers

C18_Witness ==
  LET e == reqs[1].error
  IN /\ e.type = "RequestError"
     /\ e.original = FsError("ENOENT")
     /\ e.message = "ENOENT"
     /\ e.headers["Content-Length"] = 6
     /\ "X-A" \in DOMAIN e.headers
     /\ reqs[1].threw = ""
     /\ reqs[1].text = "ENOENT"

\* the mode a request is handled in when its X-Mode header is absent
DefaultMode(r) == IF isDownload(r) THEN MODE_READ ELSE MODE_WRITE

\* C14: for a download or an upload with a valid resource the server emits one
\* 'download' or 'upload' event with (resource, mode), before it calls the
\* store, also when the store then fails; for a request with an invalid action
\* or an invalid resource it emits no such event.
C14_EventBeforeStore ==
  \A i \in Slots :
    LET r == reqs[i]
    IN r.pc # "idle" =>
         IF getAction(r) # ACTION_INVALID /\ hasValidResource(r)
         THEN /\ r.events =
                   << << IF isDownload(r) THEN "download" ELSE "upload",
                         Resource(r), Or(Mode(r), DefaultMode(r)) >> >>
              /\ r.log = IF isDownload(r) THEN <<"download", "createReadStream">>
                         ELSE <<"upload", "createWriteStream">>
         ELSE r.events = <<>> /\ r.log = <<>>

C14_Witness ==
  \E i \in Slots :
    /\ reqs[i].pc = "done"
    /\ reqs[i].events = << <<"download", <<"/", "a">>, <<"x">> >> >>
    /\ reqs[i].storeError.type = "RequestError"
    /\ reqs[i].statusCode = BAD_REQUEST

\* C16: a request without X-Mode header is handled in mode 'r' when it is a
\* download and in mode 'w' when it is an upload; the mode of the event that
\* is emitted is the mode that is given to the store.
C16_DefaultMode ==
  \A i \in Slots :
    LET r == reqs[i]
    IN (r.pc # "idle" /\ getAction(r) # ACTION_INVALID /\ hasValidResource(r)) =>
         /\ Len(r.events) = 1 /\ Len(r.storeCalls) = 1
         /\ r.events[1][3] = r.storeCalls[1][3]
         /\ r.events[1][2] = r.storeCalls[1][2]
         /\ r.xmode = undefined => r.storeCalls[1][3] = DefaultMode(r)
         /\ (r.xmode = undefined /\ r.resolved.kind = "rejected") =>
              r.storeError.type # "RequestError"

C16_Witness ==
  \E i \in Slots :
    /\ reqs[i].pc = "piped"
    /\ reqs[i].xmode = undefined
    /\ reqs[i].storeCalls = << <<"createWriteStream", <<"/", "a">>, MODE_WRITE>> >>
    /\ reqs[i].piped = <<"y">>
    /\ files[GetResourcePath(<<"/", "a">>)] = <<"y">>

\* C15: when the promise of the store is rejected with an Error, a typed error
\* (RequestError) is written to the client as it is, with its own status code,
\* and any other Error is wrapped into a RequestError with status 404 whose
\* original is the error of the store, and the client receives that 404.
C15_StoreErrorWrap ==
  \A i \in Slots :
    LET r == reqs[i]
    IN (r.resolved.kind = "rejected" /\ IsError(r.storeError)) =>
         /\ r.threw = ""
         /\ r.writeErrors = 1
         /\ r.error.type = "RequestError"
         /\ r.statusCode = r.error.statusCode
         /\ r.text = r.error.message
         /\ IF r.storeError.type = "RequestError"
            THEN r.error = r.storeError
            ELSE /\ r.error.statusCode = NOT_FOUND
                 /\ r.error.original = r.storeError

C15_Witness ==
  \E i \in Slots :
    /\ reqs[i].pc = "done"
    /\ reqs[i].storeError = FsError("EIO")
    /\ reqs[i].error.original = FsError("EIO")
    /\ reqs[i].statusCode = NOT_FOUND
    /\ reqs[i].state = FINISHED

\* a request to a store of the user whose promise resolved with a value of
\* one of the shapes
ResolvedWith(r, shapes) ==
  /\ r.store = "custom"
  /\ r.resolved.kind = "resolved"
  /\ r.resolved.shape \in shapes

\* the download is answered 200 with the bytes of the stream of the store
StreamedDown(i) ==
  /\ reqs[i].uncaught = ""
  /\ reqs[i].writeErrors = 0
  /\ reqs[i].statusCode = 200
  /\ Answered(i) => reqs[i].bytes = reqs[i].resolved.content

\* the body of the upload goes into the stream of the store
StreamedUp(i) ==
  /\ reqs[i].uncaught = ""
  /\ reqs[i].writeErrors = 0
  /\ reqs[i].continued
  /\ reqs[i].pc = "piped" => reqs[i].piped = reqs[i].body

C19_EveryResponseFinished ==
  \A i \in Slots : (reqs[i].pc # "idle") ~> (reqs[i].state = FINISHED)

\* C20: for a request the server calls writeError at most once, and never
\* after the 200 headers were sent or the state is finished: no call of
\* writeError by the server throws, also when the success path fails after
\* the promise of the store has resolved.
C20_SingleTerminalWrite ==
  \A i \in Slots :
    /\ reqs[i].writeErrors <= 1
    /\ reqs[i].threw = ""

\* the store was called for the upload and its promise is not settled yet, or
\* is rejected
NoWriteStream(r) ==
  /\ isUpload(r)
  /\ r.storeCalls # <<>>
  /\ r.resolved.kind # "resolved"

\* C21: for an upload, 100 Continue is written and the body is piped only
\* once the promise of the store has resolved to a write stream; when the
\* store rejects, no 100 Continue is written, no stream is opened, no byte of
\* the body is piped, and writeError writes an error response.
C21_ContinueAfterStore ==
  \A i \in Slots :
    LET r == reqs[i]
    IN /\ NoWriteStream(r) =>
            /\ ~r.continued
            /\ r.streams = 0
            /\ r.piped = <<>>
       /\ (isUpload(r) /\ r.resolved.kind = "rejected") =>
            /\ Answered(i)
            /\ r.writeErrors = 1
            /\ r.threw = ""
            /\ r.statusCode = r.error.statusCode
            /\ r.statusCode >= 400
            /\ r.ended

C21_Witness ==
  \E i \in Slots :
    /\ isUpload(reqs[i])
    /\ reqs[i].resolved.kind = "rejected"
    /\ reqs[i].storeError = FsError("ENOTDIR")
    /\ reqs[i].body # <<>>
    /\ reqs[i].pc = "done"
    /\ reqs[i].statusCode = 404
    /\ GetResourcePath(Resource(reqs[i])) \notin DOMAIN files

\* the call on the store is over and its arguments do not pass the checks of
\* the depth and of the mode
RejectedByValidation ==
  /\ sc.pc = "done"
  /\ \/ sc.fn = "createReadStream" /\ ReadStreamCheck(sc.resource, sc.mode) # NoError
     \/ sc.fn = "createWriteStream" /\ WriteStreamCheck(sc.resource, sc.mode) # NoError

\* C22: a createReadStream or createWriteStream that the depth check or the
\* mode check refuses is rejected with a 400 error, opens no stream and leaves
\* the files and the directories of the store as the call found them: a
\* refused createWriteStream makes neither the file nor a directory above it.
C22_RejectedTouchesNothing ==
  RejectedByValidation =>
    /\ sc.outcome = "rejected"
    /\ sc.error.type = "RequestError"
    /\ sc.error.statusCode = BAD_REQUEST
    /\ sc.streams = 0
    /\ files = sc.files0
    /\ dirs = sc.dirs0

C22_Witness ==
  /\ RejectedByValidation
  /\ sc.fn = "createWriteStream"
  /\ sc.resource = <<"/", "a", "/", "b", "/", "c">>
  /\ sc.error = DepthError
  /\ GetResourcePath(sc.resource) \notin DOMAIN files
  /\ Parents(GetResourcePath(sc.resource)) \ dirs # {}

\* the promise of the call that the step makes
LastCall == calls'[Len(calls')]

\* the step is a call of op on the server
CalledNow(op) == Len(calls') = Len(calls) + 1 /\ LastCall.op = op

\* the step resolves a pending promise of op
Resolves(op) ==
  \E i \in DOMAIN calls :
    /\ calls[i].op = op
    /\ calls[i].state = "pending"
    /\ calls'[i].state = "resolved"

\* the continuation of a promise of op is running
InThenOf(op) == \E i \in Continuing : calls[i].op = op

\* the continuation of a promise of op is running and no call was made on the
\* server since the state became st
FirstSince(op, st) ==
  \E i \in Continuing :
    /\ calls[i].op = op
    /\ \A j \in DOMAIN calls : j > i => calls[j].at # st

\* C23 as stated: when the promise of listen() resolves the state is
\* LISTENING and when the promise of close() resolves the state is CLOSED; a
\* reset() made in the continuation of close() always resolves and a close()
\* made in the continuation of listen() always passes the state check.
C23_StateAtResolve ==
  [][/\ Resolves("listen") => readyState' = LISTENING
     /\ Resolves("close") => readyState' = CLOSED
     /\ (InThenOf("close") /\ CalledNow("reset")) => LastCall.state = "resolved"
     /\ (InThenOf("listen") /\ CalledNow("close")) => LastCall.state = "pending"]_vars

\* C23 amended: the same, the reset() resolving when it is the first call
\* made on the server since the 'close' event.
C23_StateAtResolveFirst ==
  [][/\ Resolves("listen") => readyState' = LISTENING
     /\ Resolves("close") => readyState' = CLOSED
     /\ (FirstSince("close", CLOSED) /\ CalledNow("reset")) => LastCall.state = "resolved"
     /\ (InThenOf("listen") /\ CalledNow("close")) => LastCall.state = "pending"]_vars

\* after a reset, listen() resolved and close() was made in its continuation;
\* close() resolved and reset() is made in its continuation and resolves
C23_Witness ==
  \E k, l, i, j \in DOMAIN calls :
    /\ k < l /\ l < i /\ i < j
    /\ calls[k].op = "reset" /\ calls[k].state = "resolved"
    /\ calls[l].op = "listen" /\ calls[l].state = "continued"
    /\ calls[i].op = "close" /\ calls[i].at = LISTENING
    /\ calls[i].state = "continuing" /\ calls[i].mark = j - 1
    /\ calls[j].op = "reset" /\ calls[j].state = "resolved"

\* the step is an 'error' event of the transport
ErrorEmitted == errors' = errors + 1

\* C24: every promise returned by listen() settles in the end, also when the
\* transport answers the bind with 'error' and not with 'listening'; the
\* 'error' of the transport is emitted by the server and leaves the readiness
\* state as it is.
C24_ListenSettles ==
  /\ \A i \in 1..MaxCalls :
       (i \in DOMAIN calls /\ calls[i].op = "listen" /\ calls[i].state = "pending")
         ~> (i \in DOMAIN calls /\ calls[i].state # "pending")
  /\ [][ErrorEmitted => readyState' = readyState]_vars

\* C25: for a download answered with 200, the number of bytes streamed to
\* the client is the Content-Length that was sent, whatever uploads to the
\* same resource run at the same time.
C25_LengthMatchesBytes ==
  \A i \in Slots :
    (isDownload(reqs[i]) /\ reqs[i].statusCode = 200 /\ Answered(i)) =>
      Len(reqs[i].bytes) = reqs[i].headers["Content-Length"]

\* the path is below the root of the store
InsideRoot(resourcePath) ==
  /\ Len(resourcePath) > Len(Root)
  /\ SubSeq(resourcePath, 1, Len(Root)) = Root

\* the store has passed its checks and works on the file of the request
OnFile(r) == r.pc \in {"stat", "read", "ensure", "open", "write", "piped"}

\* C26: for a resource that starts with '/' and passes the depth check, '..'
\* segments included, the path that the FileStore stats, makes or opens lies
\* inside the root; no file and no directory is made outside of it.
C26_InsideRoot ==
  /\ \A i \in Slots :
       (hasValidResource(reqs[i]) /\ OnFile(reqs[i]))
         => InsideRoot(GetResourcePath(Resource(reqs[i])))
  /\ \A resourcePath \in DOMAIN files : InsideRoot(resourcePath)

====
